---- MODULE Spec2Model ----
(***************************************************************************)
(* Model of c2rust-refactor/gen/rewrite.py: the generator of the Rewrite,  *)
(* Recursive and RecoverChildren impls, and the behaviour of the impls it  *)
(* emits.                                                                  *)
(*                                                                         *)
(* A Python string is a sequence of tokens; a token is a whole word or the *)
(* comma.  A declaration is [name, type, attrs, variants]; attrs is a      *)
(* function whose domain is the set of attributes present.  Emitted Rust   *)
(* code is a sequence of impl records whose bodies are instruction lists   *)
(* that the run-time part of the model executes.  The trace! lines that    *)
(* has_field(d, 'id') adds only log and are left out.                      *)
(***************************************************************************)
EXTENDS Integers, Sequences, FiniteSets, TLC

VARIABLES decls, out, code, stack, log, prec, ret, hist

vars == <<decls, out, code, stack, log, prec, ret, hist>>

-----------------------------------------------------------------------------
(* Bounds *)

\* words in the attributes of a declaration handed to the generators: a bare
\* attribute counts one, a comma separated value one per entry
MaxWords == 3

-----------------------------------------------------------------------------
(* Python strings *)

Comma == ","

Str(w) == <<w>>

EmptyMap == [x \in {} |-> <<>>]

Range(s) == {s[i] : i \in 1..Len(s)}

\* str.split(','): the pieces between commas; '' splits into ['']
RECURSIVE split(_)
split(s) ==
  IF \A i \in 1..Len(s) : s[i] # Comma
  THEN <<s>>
  ELSE LET i == CHOOSE j \in 1..Len(s) :
                  s[j] = Comma /\ \A k \in 1..(j - 1) : s[k] # Comma
       IN <<SubSeq(s, 1, i - 1)>> \o split(SubSeq(s, i + 1, Len(s)))

\* the attribute text `w1,w2,...,wn` for the words ws
RECURSIVE join(_)
join(ws) ==
  IF Len(ws) = 0 THEN <<>>
  ELSE IF Len(ws) = 1 THEN ws[1]
  ELSE ws[1] \o <<Comma>> \o join(Tail(ws))

HasAttr(x, a) == a \in DOMAIN x.attrs

\* `trait in d.attrs.get(a).split(',')` guarded by `is not None`
AttrLists(x, a, w) == HasAttr(x, a) /\ Str(w) \in Range(split(x.attrs[a]))

-----------------------------------------------------------------------------
(* Trait availability *)

DEFAULT_GEN_TRAITS == {"Rewrite", "MaybeRewriteSeq", "RecoverChildren"}

DEFAULT_STRUCT_ENUM_GEN_TRAITS == {"Recursive"}

IsStructOrEnum(d) == d.type \in {"Struct", "Enum"}

\* rewrite_gen looked at before rewrite_skip
type_has_impl_gen_before_skip(d, trait) ==
  IF AttrLists(d, "rewrite_gen", trait) THEN TRUE
  ELSE IF AttrLists(d, "rewrite_skip", trait) THEN FALSE
  ELSE IF AttrLists(d, "rewrite_custom", trait) THEN TRUE
  ELSE IF HasAttr(d, "rewrite_print") /\ trait \in {"PrintParse", "Splice"} THEN TRUE
  ELSE IF HasAttr(d, "rewrite_print_recover")
          /\ trait \in {"PrintParse", "Splice", "Recover"} THEN TRUE
  ELSE IF HasAttr(d, "rewrite_seq_item") /\ trait = "SeqItem" THEN TRUE
  ELSE IF trait \in {"Rewrite", "MaybeRewriteSeq", "RecoverChildren"} THEN TRUE
  ELSE IF d.type \in {"Struct", "Enum"} /\ trait \in {"Recursive"} THEN TRUE
  ELSE FALSE

type_has_impl(d, trait) ==
  IF AttrLists(d, "rewrite_skip", trait) THEN FALSE
  ELSE IF AttrLists(d, "rewrite_gen", trait) THEN TRUE
  ELSE IF AttrLists(d, "rewrite_custom", trait) THEN TRUE
  ELSE IF HasAttr(d, "rewrite_print") /\ trait \in {"PrintParse", "Splice"} THEN TRUE
  ELSE IF HasAttr(d, "rewrite_print_recover")
          /\ trait \in {"PrintParse", "Splice", "Recover"} THEN TRUE
  ELSE IF HasAttr(d, "rewrite_seq_item") /\ trait = "SeqItem" THEN TRUE
  ELSE IF trait \in DEFAULT_GEN_TRAITS THEN TRUE
  ELSE IF IsStructOrEnum(d) /\ trait \in DEFAULT_STRUCT_ENUM_GEN_TRAITS THEN TRUE
  ELSE FALSE

type_needs_generated_impl(d, trait) ==
  IF AttrLists(d, "rewrite_skip", trait) THEN FALSE
  ELSE IF AttrLists(d, "rewrite_gen", trait) THEN TRUE
  ELSE IF HasAttr(d, "rewrite_seq_item") /\ trait = "SeqItem" THEN TRUE
  ELSE IF trait \in DEFAULT_GEN_TRAITS THEN TRUE
  ELSE IF IsStructOrEnum(d) /\ trait \in DEFAULT_STRUCT_ENUM_GEN_TRAITS THEN TRUE
  ELSE FALSE

PrintTraits == <<"PrintParse", "RecoverChildren", "Splice">>

\* `equal` put first for every kind, `recursive` after it
get_rewrite_strategies_equal_first(d) ==
  IF HasAttr(d, "rewrite_strategies")
  THEN split(d.attrs["rewrite_strategies"])
  ELSE <<Str("equal")>>
       \o (IF type_has_impl(d, "Recursive") THEN <<Str("recursive")>> ELSE <<>>)
       \o (IF HasAttr(d, "rewrite_extra_strategies")
           THEN split(d.attrs["rewrite_extra_strategies"]) ELSE <<>>)
       \o (IF \A i \in 1..Len(PrintTraits) : type_has_impl(d, PrintTraits[i])
           THEN <<Str("print")>> ELSE <<>>)

\* the override taken as the head of the list, automatic `print` still added
get_rewrite_strategies_override_then_print(d) ==
  (IF HasAttr(d, "rewrite_strategies")
   THEN split(d.attrs["rewrite_strategies"])
   ELSE (IF d.type = "Flag" THEN <<Str("equal")>>
         ELSE IF type_has_impl(d, "Recursive") THEN <<Str("recursive")>> ELSE <<>>)
        \o (IF HasAttr(d, "rewrite_extra_strategies")
            THEN split(d.attrs["rewrite_extra_strategies"]) ELSE <<>>))
  \o (IF \A i \in 1..Len(PrintTraits) : type_has_impl(d, PrintTraits[i])
      THEN <<Str("print")>> ELSE <<>>)

\* a flag handled like a struct or enum: no `equal`
get_rewrite_strategies_no_equal(d) ==
  IF HasAttr(d, "rewrite_strategies")
  THEN split(d.attrs["rewrite_strategies"])
  ELSE (IF type_has_impl(d, "Recursive") THEN <<Str("recursive")>> ELSE <<>>)
       \o (IF HasAttr(d, "rewrite_extra_strategies")
           THEN split(d.attrs["rewrite_extra_strategies"]) ELSE <<>>)
       \o (IF \A i \in 1..Len(PrintTraits) : type_has_impl(d, PrintTraits[i])
           THEN <<Str("print")>> ELSE <<>>)

\* the automatic `print` put before the extra strategies
get_rewrite_strategies_print_before_extra(d) ==
  IF HasAttr(d, "rewrite_strategies")
  THEN split(d.attrs["rewrite_strategies"])
  ELSE (IF d.type = "Flag" THEN <<Str("equal")>>
        ELSE IF type_has_impl(d, "Recursive") THEN <<Str("recursive")>> ELSE <<>>)
       \o (IF \A i \in 1..Len(PrintTraits) : type_has_impl(d, PrintTraits[i])
           THEN <<Str("print")>> ELSE <<>>)
       \o (IF HasAttr(d, "rewrite_extra_strategies")
           THEN split(d.attrs["rewrite_extra_strategies"]) ELSE <<>>)

get_rewrite_strategies(d) ==
  IF HasAttr(d, "rewrite_strategies")
  THEN split(d.attrs["rewrite_strategies"])
  ELSE LET first == IF d.type = "Flag" THEN <<Str("equal")>>
                    ELSE IF type_has_impl(d, "Recursive") THEN <<Str("recursive")>>
                    ELSE <<>>
           extra == IF HasAttr(d, "rewrite_extra_strategies")
                    THEN split(d.attrs["rewrite_extra_strategies"])
                    ELSE <<>>
           last  == IF \A i \in 1..Len(PrintTraits) : type_has_impl(d, PrintTraits[i])
                    THEN <<Str("print")>>
                    ELSE <<>>
       IN first \o extra \o last

-----------------------------------------------------------------------------
(* Emitted code.  An impl is [trait, ty, body, arms]; body is a list of    *)
(* instructions [op, arg], arms the arms of a `match` over the variants.   *)

Ins(op, arg) == [op |-> op, arg |-> arg]

Impl(trait, ty, body, arms) == [trait |-> trait, ty |-> ty, body |-> body, arms |-> arms]

\* the else branch with its rewind left out
StrategyBlock_no_rewind(strat) ==
  << Ins("mark", <<>>),
     Ins("strategy", strat),
     Ins("if_ok_return", Str("true")) >>

\* the closing `false` emitted inside the loop
StrategyBlock_fail_fast(strat) ==
  << Ins("mark", <<>>),
     Ins("strategy", strat),
     Ins("if_ok_return", Str("true")),
     Ins("rewind", <<>>),
     Ins("return", Str("false")) >>

\* one pass of the `for strat in get_rewrite_strategies(d)` loop
StrategyBlock(strat) ==
  << Ins("mark", <<>>),
     Ins("strategy", strat),
     Ins("if_ok_return", Str("true")),
     Ins("rewind", <<>>) >>

\* the strategies emitted last to first
RECURSIVE StrategyBlocks_reversed(_)
StrategyBlocks_reversed(strats) ==
  IF Len(strats) = 0 THEN <<>>
  ELSE StrategyBlocks_reversed(Tail(strats))
       \o << Ins("mark", <<>>),
             Ins("strategy", Head(strats)),
             Ins("if_ok_return", Str("true")),
             Ins("rewind", <<>>) >>

\* one mark taken before the loop and shared by every attempt
StrategyBlocks_one_mark(strats) ==
  IF Len(strats) = 0 THEN <<>>
  ELSE [k \in 1..(1 + 3 * Len(strats)) |->
          IF k = 1 THEN Ins("mark", <<>>)
          ELSE IF (k - 2) % 3 = 0 THEN Ins("strategy", strats[(k - 2) \div 3 + 1])
          ELSE IF (k - 2) % 3 = 1 THEN Ins("if_ok_return", Str("true"))
          ELSE Ins("rewind", <<>>)]

RECURSIVE StrategyBlocks(_)
StrategyBlocks(strats) ==
  IF Len(strats) = 0 THEN <<>>
  ELSE StrategyBlock(Head(strats)) \o StrategyBlocks(Tail(strats))

\* rewrite_ignore not looked at
do_rewrite_impl_no_ignore(d) ==
  Impl("Rewrite", d.name,
       StrategyBlocks(get_rewrite_strategies(d)) \o <<Ins("return", Str("false"))>>,
       <<>>)

do_rewrite_impl(d) ==
  IF HasAttr(d, "rewrite_ignore")
  THEN Impl("Rewrite", d.name, <<Ins("return", Str("true"))>>, <<>>)
  ELSE Impl("Rewrite", d.name,
            StrategyBlocks(get_rewrite_strategies(d)) \o <<Ins("return", Str("false"))>>,
            <<>>)

\* the lines yielded in turn, joined into one output
RECURSIVE Flatten(_)
Flatten(ss) == IF Len(ss) = 0 THEN <<>> ELSE Head(ss) \o Flatten(Tail(ss))

generate_rewrite_impls(ds) ==
  Flatten([i \in 1..Len(ds) |->
             IF type_needs_generated_impl(ds[i], "Rewrite")
             THEN <<do_rewrite_impl(ds[i])>> ELSE <<>>])

\* `if x:` on f.attrs.get(a): the attribute is there and its text is not ''
Truthy(f, a) == HasAttr(f, a) /\ f.attrs[a] # <<>>

\* the words all of whose letters are upper case
UpperWords == {"POSTFIX", "PREFIX", "RESET"}

\* str.isupper(): '' has no upper case letter
isupper(name) == name # <<>> /\ \A i \in 1..Len(name) : name[i] \in UpperWords

prec_name_to_expr(name, inc) ==
  LET inc_str == IF ~inc THEN <<>> ELSE <<" + 1">>
  IN IF isupper(name)
     THEN <<"parser::PREC_">> \o name \o inc_str
     ELSE <<"parser::AssocOp::">> \o name \o <<".precedence() as i8">> \o inc_str

\* the order of the spec: prec or prec_inc, then prec_first, then the binop
field_prec_expr_explicit_first(f, first, suffix) ==
  LET ctor == IF HasAttr(f, "prec_special") THEN f.attrs["prec_special"] ELSE <<"Normal">>
      wrap(val) == <<"ExprPrec::">> \o ctor \o <<"(">> \o val \o <<")">>
  IN IF Truthy(f, "prec_inc") THEN wrap(prec_name_to_expr(f.attrs["prec_inc"], TRUE))
     ELSE IF Truthy(f, "prec") THEN wrap(prec_name_to_expr(f.attrs["prec"], FALSE))
     ELSE IF first /\ Truthy(f, "prec_first")
     THEN wrap(prec_name_to_expr(f.attrs["prec_first"], FALSE))
     ELSE IF Truthy(f, "prec_left_of_binop")
     THEN <<"binop_left_prec(">> \o f.attrs["prec_left_of_binop"] \o <<suffix, ")">>
     ELSE IF Truthy(f, "prec_right_of_binop")
     THEN <<"binop_right_prec(">> \o f.attrs["prec_right_of_binop"] \o <<suffix, ")">>
     ELSE wrap(<<"parser::PREC_RESET">>)

\* the Rust expression of the precedence to enter field f with; `left_of +
\* suffix` names the variable the match pattern binds the binop field to
field_prec_expr(f, first, suffix) ==
  LET reset == <<"parser::PREC_RESET">>
      val_prec == IF Truthy(f, "prec")
                  THEN prec_name_to_expr(f.attrs["prec"], FALSE) ELSE reset
      val_prec_inc == IF Truthy(f, "prec_inc")
                      THEN prec_name_to_expr(f.attrs["prec_inc"], TRUE) ELSE val_prec
  IN IF Truthy(f, "prec_left_of_binop")
     THEN <<"binop_left_prec(">> \o f.attrs["prec_left_of_binop"] \o <<suffix, ")">>
     ELSE IF Truthy(f, "prec_right_of_binop")
     THEN <<"binop_right_prec(">> \o f.attrs["prec_right_of_binop"] \o <<suffix, ")">>
     ELSE LET prec_val == IF first /\ Truthy(f, "prec_first")
                          THEN prec_name_to_expr(f.attrs["prec_first"], FALSE)
                          ELSE val_prec_inc
              ctor == IF HasAttr(f, "prec_special")
                      THEN f.attrs["prec_special"] ELSE <<"Normal">>
          IN <<"ExprPrec::">> \o ctor \o <<"(">> \o prec_val \o <<")">>

\* SELF_FIELD_RE.sub: `self.foo` becomes `(*foo<suffix>)`, the rest is kept
RECURSIVE rewrite_field_expr(_, _)
rewrite_field_expr(expr, suffix) ==
  IF Len(expr) = 0 THEN <<>>
  ELSE IF expr[1] = "self." /\ Len(expr) >= 2
  THEN <<"(*", expr[2], suffix, ")">> \o rewrite_field_expr(SubSeq(expr, 3, Len(expr)), suffix)
  ELSE <<expr[1]>> \o rewrite_field_expr(Tail(expr), suffix)

\* the precedence set for the rest of a sequence not put back after it
FieldBlock_no_restore(se, v, i) ==
  LET f == v.fields[i]
      seq == HasAttr(f, "seq_rewrite") \/ HasAttr(f, "seq_rewrite_outer_span")
      outer_span_expr == IF HasAttr(f, "seq_rewrite_outer_span")
                         THEN rewrite_field_expr(f.attrs["seq_rewrite_outer_span"], "2")
                         ELSE <<"DUMMY_SP">>
      mk_rewrite(rest) ==
        IF ~seq
        THEN Ins(IF rest THEN "rewrite_rest" ELSE "rewrite_field", Str(f.name))
        ELSE Ins(IF rest THEN "rewrite_seq_rest" ELSE "rewrite_seq",
                 Str(f.name) \o outer_span_expr)
  IN (IF HasAttr(f, "prec_first")
      THEN << Ins("let_old_replace_expr_prec", field_prec_expr(f, TRUE, "1")),
              Ins("rewrite_first", Str(f.name)),
              Ins("replace_expr_prec", field_prec_expr(f, FALSE, "1")),
              Ins("ok_and", <<>>),
              mk_rewrite(TRUE) >>
      ELSE (IF HasAttr(se, "prec_contains_expr")
            THEN <<Ins("let_old_replace_expr_prec", field_prec_expr(f, FALSE, "1"))>>
            ELSE <<>>)
           \o <<mk_rewrite(FALSE)>>
           \o (IF HasAttr(se, "prec_contains_expr")
               THEN <<Ins("replace_expr_prec", <<"old">>)>> ELSE <<>>))
     \o <<Ins("and_also", <<>>)>>

\* the code emitted for one field of a variant, `({ ...; ok }) &&`: the call
\* that rewrites the field, between the statements that set the expression
\* precedence and put it back.  The slices `&f1[0]` and `&f1[1..]` are the
\* calls rewrite_first and the two *_rest ones.
FieldBlock(se, v, i) ==
  LET f == v.fields[i]
      contains_expr == HasAttr(se, "prec_contains_expr")
      seq == HasAttr(f, "seq_rewrite") \/ HasAttr(f, "seq_rewrite_outer_span")
      outer_span_expr == IF HasAttr(f, "seq_rewrite_outer_span")
                         THEN rewrite_field_expr(f.attrs["seq_rewrite_outer_span"], "2")
                         ELSE <<"DUMMY_SP">>
      mk_rewrite(rest) ==
        IF ~seq
        THEN Ins(IF rest THEN "rewrite_rest" ELSE "rewrite_field", Str(f.name))
        ELSE Ins(IF rest THEN "rewrite_seq_rest" ELSE "rewrite_seq",
                 Str(f.name) \o outer_span_expr)
  IN (IF HasAttr(f, "prec_first")
      THEN << Ins("let_old_replace_expr_prec", field_prec_expr(f, TRUE, "1")),
              Ins("rewrite_first", Str(f.name)),
              Ins("replace_expr_prec", field_prec_expr(f, FALSE, "1")),
              Ins("ok_and", <<>>),
              mk_rewrite(TRUE),
              Ins("replace_expr_prec", <<"old">>) >>
      ELSE (IF contains_expr
            THEN <<Ins("let_old_replace_expr_prec", field_prec_expr(f, FALSE, "1"))>>
            ELSE <<>>)
           \o <<mk_rewrite(FALSE)>>
           \o (IF contains_expr THEN <<Ins("replace_expr_prec", <<"old">>)>> ELSE <<>>))
     \o <<Ins("and_also", <<>>)>>

\* the fields marked rewrite_ignore not passed over
RECURSIVE FieldBlocks_keep_ignored(_, _, _)
FieldBlocks_keep_ignored(se, v, i) ==
  IF i > Len(v.fields) THEN <<>>
  ELSE FieldBlock(se, v, i) \o FieldBlocks_keep_ignored(se, v, i + 1)

RECURSIVE FieldBlocks(_, _, _)
FieldBlocks(se, v, i) ==
  IF i > Len(v.fields) THEN <<>>
  ELSE (IF HasAttr(v.fields[i], "rewrite_ignore") THEN <<>> ELSE FieldBlock(se, v, i))
       \o FieldBlocks(se, v, i + 1)

\* one arm per variant, ended by the `true` that closes the && chain; a pair
\* of values of different variants falls to `(_, _) => false`
do_recursive_body(se) ==
  [k \in 1..Len(se.variants) |->
     [variant |-> se.variants[k].name,
      code |-> FieldBlocks(se, se.variants[k], 1) \o <<Ins("return", Str("true"))>>]]

do_recursive_impl(d) ==
  (IF HasAttr(d, "rewrite_ignore")
   THEN <<Impl("Recursive", d.name, <<Ins("return", Str("true"))>>, <<>>)>>
   ELSE <<>>)
  \o <<Impl("Recursive", d.name, <<Ins("match", <<>>)>>, do_recursive_body(d))>>

generate_recursive_impls(ds) ==
  Flatten([i \in 1..Len(ds) |->
             IF type_needs_generated_impl(ds[i], "Recursive")
             THEN do_recursive_impl(ds[i]) ELSE <<>>])

\* the arms of `match (reparsed, new)`; nothing is emitted for a flag or an
\* ignored type, and a pair of different variants falls to the panic! arm
RecoverBlock(d, v, i) ==
  LET f == v.fields[i]
      contains_expr == HasAttr(d, "prec_contains_expr")
  IN IF HasAttr(f, "prec_first")
     THEN << Ins("let_old_replace_expr_prec", field_prec_expr(f, TRUE, "_n")),
             Ins("recover_first", Str(f.name)),
             Ins("replace_expr_prec", field_prec_expr(f, FALSE, "_n")),
             Ins("recover_rest", Str(f.name)),
             Ins("replace_expr_prec", <<"old">>) >>
     ELSE (IF contains_expr
           THEN <<Ins("let_old_replace_expr_prec", field_prec_expr(f, FALSE, "_n"))>>
           ELSE <<>>)
          \o <<Ins("recover_field", Str(f.name))>>
          \o (IF contains_expr THEN <<Ins("replace_expr_prec", <<"old">>)>> ELSE <<>>)

RECURSIVE RecoverBlocks(_, _, _)
RecoverBlocks(d, v, i) ==
  IF i > Len(v.fields) THEN <<>>
  ELSE (IF HasAttr(v.fields[i], "rewrite_ignore") THEN <<>> ELSE RecoverBlock(d, v, i))
       \o RecoverBlocks(d, v, i + 1)

do_recover_children_match(d) ==
  IF ~IsStructOrEnum(d) \/ HasAttr(d, "rewrite_ignore")
  THEN <<>>
  ELSE <<Ins("match", <<>>)>>

do_recover_children_arms(d) ==
  IF ~IsStructOrEnum(d) \/ HasAttr(d, "rewrite_ignore")
  THEN <<>>
  ELSE [k \in 1..Len(d.variants) |->
          [variant |-> d.variants[k].name, code |-> RecoverBlocks(d, d.variants[k], 1)]]

\* the hook tried after the walk over the children
do_recover_children_impl_hook_last(d) ==
  LET impl_recover == type_has_impl(d, "Recover")
      hook(span) == IF impl_recover THEN <<Ins("if_recover_return", Str(span))>> ELSE <<>>
  IN [trait |-> "RecoverChildren", ty |-> d.name,
      recover_children |-> do_recover_children_match(d),
      arms |-> do_recover_children_arms(d),
      recover_node_and_children |-> <<Ins("recover_children", <<>>)>> \o hook("None"),
      recover_node_restricted |-> <<Ins("recover_children", <<>>)>> \o hook("old_span")]

\* the three functions of the impl: recover_children is the match,
\* the two entry points try the recover hook first when the type has Recover
do_recover_children_impl(d) ==
  LET impl_recover == type_has_impl(d, "Recover")
      hook(span) == IF impl_recover THEN <<Ins("if_recover_return", Str(span))>> ELSE <<>>
  IN [trait |-> "RecoverChildren", ty |-> d.name,
      recover_children |-> do_recover_children_match(d),
      arms |-> do_recover_children_arms(d),
      recover_node_and_children |-> hook("None") \o <<Ins("recover_children", <<>>)>>,
      recover_node_restricted |-> hook("old_span") \o <<Ins("recover_children", <<>>)>>]

generate_recover_children_impls(ds) ==
  Flatten([i \in 1..Len(ds) |->
             IF type_needs_generated_impl(ds[i], "RecoverChildren")
             THEN <<do_recover_children_impl(ds[i])>> ELSE <<>>])

do_seq_item_impl(d) ==
  Impl("SeqItem", d.name, <<Ins("return", Str("SeqItemId::Node(self.id)"))>>, <<>>)

generate_seq_item_impls(ds) ==
  Flatten([i \in 1..Len(ds) |->
             IF type_needs_generated_impl(ds[i], "SeqItem")
             THEN <<do_seq_item_impl(ds[i])>> ELSE <<>>])

\* one impl for T and one for P<T>; without SeqItem the impl has no method
do_maybe_rewrite_seq_impl(d) ==
  LET supported == type_has_impl(d, "SeqItem")
      body == IF supported THEN <<Ins("rewrite_seq", <<>>)>> ELSE <<>>
  IN << Impl("MaybeRewriteSeq", d.name, body, <<>>),
        Impl("MaybeRewriteSeq", "P<" \o d.name \o ">", body, <<>>) >>

generate_maybe_rewrite_seq_impls(ds) ==
  Flatten([i \in 1..Len(ds) |->
             IF type_needs_generated_impl(ds[i], "MaybeRewriteSeq")
             THEN do_maybe_rewrite_seq_impl(ds[i]) ELSE <<>>])

-----------------------------------------------------------------------------
(* Declarations handed to the generators *)

Traits ==
  <<"Rewrite", "SeqItem", "MaybeRewriteSeq", "Recursive",
    "PrintParse", "Splice", "Recover", "RecoverChildren">>

\* strategy names: the three built in ones and a kind-specific one
StrategyNames == <<"equal", "recursive", "print", "item_header">>

Types == {"Struct", "Enum", "Flag"}

FlagAttrs == {"rewrite_ignore", "rewrite_print", "rewrite_print_recover", "rewrite_seq_item"}

TraitListAttrs == {"rewrite_skip", "rewrite_gen", "rewrite_custom"}

StrategyListAttrs == {"rewrite_strategies", "rewrite_extra_strategies"}

AttrNames ==
  <<"rewrite_ignore", "rewrite_print", "rewrite_print_recover", "rewrite_seq_item",
    "rewrite_skip", "rewrite_gen", "rewrite_custom",
    "rewrite_strategies", "rewrite_extra_strategies">>

\* the lists of k words that follow one another in ws (taken cyclically)
WordLists(ws, k) ==
  IF k < 1 \/ k > Len(ws) THEN {}
  ELSE {[j \in 1..k |-> Str(ws[((i + j - 2) % Len(ws)) + 1])] : i \in 1..Len(ws)}

\* the values of attribute a that are k words long; a bare attribute counts one
AttrValues(a, k) ==
  IF a \in FlagAttrs THEN (IF k = 1 THEN {<<>>} ELSE {})
  ELSE IF a \in TraitListAttrs THEN {join(l) : l \in WordLists(Traits, k)}
  ELSE {join(l) : l \in WordLists(StrategyNames, k)}

\* the attribute maps over `names` that hold at most n words in all
RECURSIVE AttrMaps(_, _)
AttrMaps(names, n) ==
  IF Len(names) = 0 THEN {EmptyMap}
  ELSE AttrMaps(Tail(names), n)
       \cup UNION {{(Head(names) :> v) @@ m :
                     v \in AttrValues(Head(names), k), m \in AttrMaps(Tail(names), n - k)} :
                   k \in 1..n}

Field(name, ty, attrs) == [name |-> name, ty |-> ty, attrs |-> attrs]

Variant(name, fields) == [name |-> name, fields |-> fields]

Decl(name, type, attrs, variants) ==
  [name |-> name, type |-> type, attrs |-> attrs, variants |-> variants]

\* a struct is its own single variant, an enum has several, a flag none
GenVariants(type) ==
  IF type = "Flag" THEN <<>>
  ELSE IF type = "Struct"
  THEN <<Variant("T", <<Field("a", "T", EmptyMap),
                        Field("b", "T", "rewrite_ignore" :> <<>>)>>)>>
  ELSE <<Variant("V1", <<Field("a", "T", EmptyMap)>>), Variant("V2", <<>>)>>

\* the names a precedence attribute is given: a PREC_ constant, an AssocOp
PrecNames == {"POSTFIX", "Assign"}

\* the texts of a field attribute; `#[prec]` alone has the text ''
FieldAttrValues(a) ==
  IF a \in {"prec", "prec_inc", "prec_first"} THEN {<<>>} \cup {Str(n) : n \in PrecNames}
  ELSE IF a \in {"prec_left_of_binop", "prec_right_of_binop"} THEN {Str("op")}
  ELSE {Str("Callee")}

PrecAttrNames ==
  <<"prec", "prec_inc", "prec_first", "prec_left_of_binop", "prec_right_of_binop",
    "prec_special">>

RECURSIVE FieldAttrMaps(_)
FieldAttrMaps(names) ==
  IF Len(names) = 0 THEN {EmptyMap}
  ELSE FieldAttrMaps(Tail(names))
       \cup {(Head(names) :> v) @@ m :
               v \in FieldAttrValues(Head(names)), m \in FieldAttrMaps(Tail(names))}

\* a binop field and an operand field that carries precedence attributes
PrecVariants(type, fa) ==
  <<Variant(IF type = "Struct" THEN "T" ELSE "V1",
            <<Field("op", "T", "rewrite_ignore" :> <<>>), Field("a", "T", fa)>>)>>

PrecDecls ==
  {Decl("T", t, a, PrecVariants(t, fa)) :
     t \in {"Struct", "Enum"},
     a \in {EmptyMap, "prec_contains_expr" :> <<>>},
     fa \in FieldAttrMaps(PrecAttrNames)}

GenDecls ==
  {Decl("T", t, a, GenVariants(t)) : t \in Types, a \in AttrMaps(AttrNames, MaxWords)}
  \cup PrecDecls

-----------------------------------------------------------------------------
(* The generators, run on a list of declarations *)

NoOutput == [gen |-> "none", text |-> <<>>]

\* the precedence of a fresh context: no enclosing constraint
NoPrec == <<"ExprPrec::", "Normal", "(", "parser::PREC_RESET", ")">>

Idle ==
  /\ code = <<>>
  /\ stack = <<>>
  /\ log = <<>>
  /\ prec = NoPrec
  /\ ret = "none"
  /\ hist = <<>>

InitGen ==
  /\ \E d \in GenDecls : decls = <<d>>
  /\ out = NoOutput
  /\ Idle

Emit(gen, text) ==
  /\ out' = [gen |-> gen, text |-> text]
  /\ UNCHANGED <<decls, code, stack, log, prec, ret, hist>>

GenerateRewriteImpls == Emit("rewrite", generate_rewrite_impls(decls))

GenerateRecursiveImpls == Emit("recursive", generate_recursive_impls(decls))

GenerateRecoverChildrenImpls ==
  Emit("recover_children", generate_recover_children_impls(decls))

GenerateSeqItemImpls == Emit("seq_item", generate_seq_item_impls(decls))

GenerateMaybeRewriteSeqImpls ==
  Emit("maybe_rewrite_seq", generate_maybe_rewrite_seq_impls(decls))

NextGen ==
  \/ GenerateRewriteImpls
  \/ GenerateRecursiveImpls
  \/ GenerateRecoverChildrenImpls
  \/ GenerateSeqItemImpls
  \/ GenerateMaybeRewriteSeqImpls

SpecGen == InitGen /\ [][NextGen]_vars

-----------------------------------------------------------------------------
(* The emitted code at run time.  The program is the output of the          *)
(* generators; a frame of the stack is one call of an emitted function.     *)

\* edits a kind-specific strategy may record in one attempt
MaxEdits == 1

Build(ds) ==
  [rewrite |-> generate_rewrite_impls(ds),
   recursive |-> generate_recursive_impls(ds),
   recover_children |-> generate_recover_children_impls(ds)]

\* the strategies an emitted Rewrite impl tries, in the order it tries them
Strategies(impl) ==
  LET b == SelectSeq(impl.body, LAMBDA ins : ins.op = "strategy")
  IN [i \in 1..Len(b) |-> b[i].arg]

ImplsIn(c, file, ty) == {i \in 1..Len(c[file]) : c[file][i].ty = ty}

\* rustc accepts the emitted code: one Rewrite impl per type, no type with two
\* Recursive impls, and a Recursive impl wherever strategy::recursive is used
Compiles(ds) ==
  LET c == Build(ds)
  IN \A i \in 1..Len(ds) :
       /\ Cardinality(ImplsIn(c, "rewrite", ds[i].name)) = 1
       /\ Cardinality(ImplsIn(c, "recursive", ds[i].name)) <= 1
       /\ \A j \in ImplsIn(c, "rewrite", ds[i].name) :
            Str("recursive") \in Range(Strategies(c.rewrite[j]))
              => Cardinality(ImplsIn(c, "recursive", ds[i].name)) = 1

Attrs1(a, v) == a :> v

Attrs2(a, v, b, w) == (a :> v) @@ (b :> w)

LeafAttrs ==
  { EmptyMap,
    Attrs1("rewrite_print", <<>>),
    Attrs1("rewrite_ignore", <<>>),
    Attrs1("rewrite_extra_strategies", Str("item_header")) }

MidAttrs ==
  { EmptyMap,
    Attrs1("rewrite_print", <<>>),
    Attrs1("rewrite_skip", Str("Recursive")),
    Attrs2("rewrite_ignore", <<>>, "rewrite_skip", Str("Recursive")),
    Attrs2("rewrite_print", <<>>, "rewrite_strategies", <<"item_header", Comma, "print">>) }

TopAttrs ==
  { EmptyMap,
    Attrs1("rewrite_print", <<>>),
    Attrs2("rewrite_print", <<>>, "rewrite_strategies", Str("recursive")),
    Attrs2("rewrite_print", <<>>, "rewrite_extra_strategies", Str("item_header")),
    Attrs1("rewrite_strategies", <<"item_header", Comma, "recursive">>) }

\* the type of a field that holds a sequence of nodes of kind n
SeqType(n) == "Vec<" \o n \o ">"

\* an expression kind: a binary operation whose operands take their
\* precedence from the operator, and a call whose argument list is rewritten
\* as a sequence with the callee, its first element, at its own precedence
ExprDecls ==
  << Decl("Leaf", "Flag", EmptyMap, <<>>),
     Decl("Op", "Flag", Attrs1("rewrite_print", <<>>), <<>>),
     Decl("Item", "Struct", Attrs2("rewrite_custom", Str("Recover"), "rewrite_seq_item", <<>>),
          <<Variant("Item", <<Field("id", "Leaf", Attrs1("rewrite_ignore", <<>>)),
                              Field("v", "Leaf", EmptyMap)>>)>>),
     Decl("Expr", "Enum", Attrs2("prec_contains_expr", <<>>, "rewrite_print", <<>>),
          << Variant("Binary",
                     <<Field("op", "Op", EmptyMap),
                       Field("lhs", "Leaf", Attrs1("prec_left_of_binop", Str("op"))),
                       Field("rhs", "Leaf", Attrs2("prec_right_of_binop", Str("op"),
                                                   "prec_special", Str("Callee")))>>),
             Variant("Call",
                     <<Field("span", "Leaf", Attrs1("rewrite_ignore", <<>>)),
                       Field("args", SeqType("Item"),
                             Attrs2("prec_first", Str("POSTFIX"),
                                    "seq_rewrite_outer_span", <<"self.", "span">>)
                             @@ Attrs1("prec", Str("PREFIX")))>>) >>) >>

\* a flag, a struct holding the flag, and an enum over both
RunDecls ==
  { ds \in { << Decl("Leaf", "Flag", la, <<>>),
               Decl("Mid", "Struct", ma,
                    <<Variant("Mid", <<Field("x", "Leaf", EmptyMap)>>)>>),
               Decl("Top", "Enum", ta,
                    << Variant("A", <<Field("r", "Leaf", EmptyMap),
                                      Field("l", "Mid", EmptyMap)>>),
                       Variant("B", <<Field("x", "Leaf", EmptyMap),
                                      Field("y", "Leaf", Attrs1("rewrite_ignore", <<>>))>>) >>) >> :
               la \in LeafAttrs, ma \in MidAttrs, ta \in TopAttrs } :
      Compiles(ds) }
  \cup {ExprDecls}

FlagValues == {"a", "b"}

Tree(kind, variant, val, kids) ==
  [kind |-> kind, variant |-> variant, val |-> val, kids |-> kids]

DeclIn(ds, n) == ds[CHOOSE i \in 1..Len(ds) : ds[i].name = n]

IsSeqType(ds, ty) == \E i \in 1..Len(ds) : ty = SeqType(ds[i].name)

ElemType(ds, ty) == ds[CHOOSE i \in 1..Len(ds) : ty = SeqType(ds[i].name)].name

\* self.id of a sequence item, the SeqItemId of do_seq_item_impl
IdOf(t) == t.kids[1].val

\* the sequences over S whose items have ids that differ from one another
DistinctSeqs(S) ==
  UNION {{q \in [1..n -> S] : \A i, j \in 1..n : i # j => IdOf(q[i]) # IdOf(q[j])} :
         n \in 0..Cardinality(FlagValues)}

\* the values of a declared type, and of a sequence of them
RECURSIVE TreesOf(_, _)
RECURSIVE KidsOf(_, _)
TreesOf(ds, kind) ==
  IF IsSeqType(ds, kind)
  THEN {Tree(kind, "", "", q) : q \in DistinctSeqs(TreesOf(ds, ElemType(ds, kind)))}
  ELSE
  LET d == DeclIn(ds, kind)
  IN IF d.type = "Flag"
     THEN {Tree(kind, "", v, <<>>) : v \in FlagValues}
     ELSE UNION {{Tree(kind, d.variants[k].name, "", kids) :
                    kids \in KidsOf(ds, d.variants[k].fields)} :
                 k \in 1..Len(d.variants)}

KidsOf(ds, fields) ==
  IF Len(fields) = 0 THEN {<<>>}
  ELSE {<<t>> \o r : t \in TreesOf(ds, Head(fields).ty), r \in KidsOf(ds, Tail(fields))}

\* rcx.mark(): the position in the edit log and the precedence in force
NoMark == [len |-> -1, prec |-> <<"none">>]

mark == [len |-> Len(log), prec |-> prec]

\* rcx.rewind(m): drop the edits and the precedence changes made after m
rewind(m) ==
  /\ log' = SubSeq(log, 1, m.len)
  /\ prec' = m.prec

Edit(path, by, n) == [at |-> path, by |-> by, n |-> n]

\* a call of an emitted function or of a function of the library; entry,
\* entryPrec, pre, tried, marks, seen and hook record what the call has seen
\* and done so far.  saved is the local `old` of `let old =
\* rcx.replace_expr_prec(..)`, outer and off the outer span and the offset of
\* the slice a sequence function was called with.
Frame(fn, ty, old, new, path) ==
  [fn |-> fn, ty |-> ty, old |-> old, new |-> new, path |-> path,
   pc |-> 1, arm |-> 0, ok |-> FALSE, mark |-> NoMark,
   entry |-> log, entryPrec |-> prec, pre |-> <<>>, tried |-> <<>>, marks |-> 0,
   seen |-> <<>>, saved |-> <<>>, outer |-> <<>>, off |-> 0, hook |-> "none"]

Top == stack[Len(stack)]

SetTop(f) == [stack EXCEPT ![Len(stack)] = f]

ImplOf(file, ty) == code[file][CHOOSE i \in ImplsIn(code, file, ty) : TRUE]

\* the functions of the library that loop over a sequence
LibraryFns == {"rewrite_seq", "recover_seq"}

\* the closing brace of a function or of a match arm that returns ()
End == Ins("end", <<>>)

CodeOf(f) ==
  IF f.fn = "rewrite" THEN ImplOf("rewrite", f.ty).body
  ELSE IF f.fn = "recursive"
  THEN (IF f.arm = 0 THEN ImplOf("recursive", f.ty).body
        ELSE ImplOf("recursive", f.ty).arms[f.arm].code)
  ELSE IF f.fn = "recover_node_and_children"
  THEN Append(ImplOf("recover_children", f.ty).recover_node_and_children, End)
  ELSE IF f.fn = "recover_children"
  THEN (IF f.arm = 0 THEN Append(ImplOf("recover_children", f.ty).recover_children, End)
        ELSE Append(ImplOf("recover_children", f.ty).arms[f.arm].code, End))
  ELSE <<>>

Cur == IF Top.fn \in LibraryFns THEN Ins(Top.fn, <<>>) ELSE CodeOf(Top)[Top.pc]

At(op) == stack # <<>> /\ Cur.op = op

Attempt(strat, v, lg) == [strat |-> strat, ok |-> v, log |-> lg]

\* the result of one call made for field `name` of the pair being matched
Seen(name, v) == [field |-> name, ok |-> v]

\* the top call returns v to its caller, which goes on after the call
Leave(v) ==
  LET f == Top
      done == [ty |-> f.ty, path |-> f.path, old |-> f.old, new |-> f.new, ok |-> v,
               tried |-> f.tried, marks |-> f.marks,
               entry |-> f.entry, log |-> log, entryPrec |-> f.entryPrec, prec |-> prec]
  IN /\ hist' = IF f.fn = "rewrite" THEN Append(hist, done) ELSE hist
     /\ IF Len(stack) = 1
        THEN /\ stack' = <<>>
             /\ ret' = IF v THEN "true" ELSE "false"
        ELSE LET c == stack[Len(stack) - 1]
                 c2 == [c EXCEPT !.ok = v, !.pc = @ + 1,
                                 !.tried = IF c.fn = "rewrite"
                                           THEN Append(@, Attempt(CodeOf(c)[c.pc].arg, v, log))
                                           ELSE @,
                                 !.seen = IF c.fn \in {"recursive", "recover_children"}
                                          THEN Append(@, Seen(CodeOf(c)[c.pc].arg[1], v))
                                          ELSE @]
             IN /\ stack' = SubSeq(stack, 1, Len(stack) - 2) \o <<c2>>
                /\ ret' = ret
     /\ UNCHANGED <<decls, out, code, log, prec>>

Step(f) ==
  /\ stack' = SetTop(f)
  /\ UNCHANGED <<decls, out, code, ret, hist>>

\* the top-level call Rewrite::rewrite(old, new, rcx) on a fresh context
Call ==
  /\ stack = <<>> /\ ret = "none" /\ code # <<>>
  /\ \E i \in 1..Len(decls) : \E old, new \in TreesOf(decls, decls[i].name) :
       stack' = <<Frame("rewrite", decls[i].name, old, new, <<>>)>>
  /\ UNCHANGED <<decls, out, code, log, prec, ret, hist>>

\* let mark = rcx.mark();
Mark ==
  /\ At("mark")
  /\ Step([Top EXCEPT !.mark = mark, !.pre = log, !.marks = @ + 1, !.pc = @ + 1])
  /\ UNCHANGED <<log, prec>>

\* strategy::equal::rewrite: success iff old and new are equal, no edit
StrategyEqual ==
  /\ At("strategy") /\ Cur.arg = Str("equal")
  /\ LET v == (Top.old = Top.new)
     IN Step([Top EXCEPT !.ok = v, !.pc = @ + 1,
                         !.tried = Append(@, Attempt(Cur.arg, v, log))])
  /\ UNCHANGED <<log, prec>>

\* strategy::recursive::rewrite: Recursive::recursive(old, new, rcx)
StrategyRecursive ==
  /\ At("strategy") /\ Cur.arg = Str("recursive")
  /\ stack' = Append(stack, Frame("recursive", Top.ty, Top.old, Top.new, Top.path))
  /\ UNCHANGED <<decls, out, code, log, prec, ret, hist>>

\* strategy::print::rewrite: splice the printed text of new over old, then
\* walk the reparsed tree, which has the shape of new, together with new
StrategyPrint ==
  /\ At("strategy") /\ Cur.arg = Str("print")
  /\ log' = Append(log, Edit(Top.path, Cur.arg, 1))
  /\ stack' = Append(stack, [Frame("recover_node_and_children", Top.ty, Top.new, Top.new,
                                  Top.path)
                            EXCEPT !.entry = log'])
  /\ UNCHANGED <<decls, out, code, prec, ret, hist>>

\* a kind-specific strategy: records some edits, then succeeds or fails
StrategyOther ==
  /\ At("strategy")
  /\ Cur.arg \notin {Str("equal"), Str("recursive"), Str("print")}
  /\ \E n \in 0..MaxEdits : \E v \in BOOLEAN :
       LET lg == log \o [i \in 1..n |-> Edit(Top.path, Cur.arg, i)]
       IN /\ log' = lg
          /\ Step([Top EXCEPT !.ok = v, !.pc = @ + 1,
                              !.tried = Append(@, Attempt(Cur.arg, v, lg))])
  /\ UNCHANGED prec

\* if ok { return true; }
IfOkReturn ==
  /\ At("if_ok_return")
  /\ IF Top.ok
     THEN Leave(TRUE)
     ELSE Step([Top EXCEPT !.pc = @ + 1]) /\ UNCHANGED <<log, prec>>

\* else { rcx.rewind(mark); }
Rewind ==
  /\ At("rewind")
  /\ rewind(Top.mark)
  /\ Step([Top EXCEPT !.pc = @ + 1])

\* the closing `true` or `false` of a function body
Return ==
  /\ At("return")
  /\ Leave(Cur.arg = Str("true"))

\* panic!: the call stack is unwound, the top-level call does not return
Panic ==
  /\ stack' = <<>>
  /\ ret' = "panic"
  /\ UNCHANGED <<decls, out, code, log, prec, hist>>

\* match (old, new): the arm of the variant both have, else (_, _) => false;
\* match (reparsed, new): the same, else _ => panic!
Match ==
  /\ At("match")
  /\ LET arms == ImplOf(IF Top.fn = "recursive" THEN "recursive" ELSE "recover_children",
                        Top.ty).arms
         ks == {k \in 1..Len(arms) :
                  arms[k].variant = Top.old.variant /\ arms[k].variant = Top.new.variant}
     IN IF ks = {}
        THEN (IF Top.fn = "recursive" THEN Leave(FALSE) ELSE Panic)
        ELSE /\ Step([Top EXCEPT !.arm = CHOOSE k \in ks : TRUE, !.pc = 1])
             /\ UNCHANGED <<log, prec>>

FieldIndex(ty, variant, name) ==
  LET d == DeclIn(decls, ty)
      v == d.variants[CHOOSE k \in 1..Len(d.variants) : d.variants[k].name = variant]
  IN CHOOSE i \in 1..Len(v.fields) : v.fields[i].name = name

FieldType(ty, variant, i) ==
  LET d == DeclIn(decls, ty)
      v == d.variants[CHOOSE k \in 1..Len(d.variants) : d.variants[k].name = variant]
  IN v.fields[i].ty

\* let ok = Rewrite::rewrite(f1, f2, rcx.borrow());
RewriteField ==
  /\ At("rewrite_field")
  /\ LET i == FieldIndex(Top.ty, Top.old.variant, Cur.arg[1])
     IN stack' = Append(stack, Frame("rewrite", FieldType(Top.ty, Top.old.variant, i),
                                     Top.old.kids[i], Top.new.kids[i],
                                     Append(Top.path, i)))
  /\ UNCHANGED <<decls, out, code, log, prec, ret, hist>>

\* ok && ...: the chain stops, and the function returns false, at the first false
AndAlso ==
  /\ At("and_also")
  /\ IF Top.ok
     THEN Step([Top EXCEPT !.pc = @ + 1]) /\ UNCHANGED <<log, prec>>
     ELSE Leave(FALSE)

\* the value of the variable `name + suffix` bound by the patterns of the
\* match: suffix 1 or _r is the first tree matched, suffix 2 or _n the second
Var(fr, name, suffix) ==
  LET t == IF suffix \in {"1", "_r"} THEN fr.old ELSE fr.new
  IN t.kids[FieldIndex(fr.ty, t.variant, name)].val

\* the value of a precedence expression: binop_left_prec and binop_right_prec
\* of the operator held by the variable, a constant otherwise
EvalPrec(expr, fr) ==
  IF expr = <<"old">> THEN fr.saved
  ELSE IF expr[1] \in {"binop_left_prec(", "binop_right_prec("}
  THEN <<expr[1], Var(fr, expr[2], expr[3]), ")">>
  ELSE expr

\* the value of an outer span expression: `(*foo2)` is the value of foo2
RECURSIVE EvalSpan(_, _)
EvalSpan(expr, fr) ==
  IF Len(expr) = 0 THEN <<>>
  ELSE IF expr[1] = "(*" /\ Len(expr) >= 4
  THEN <<Var(fr, expr[2], expr[3])>> \o EvalSpan(SubSeq(expr, 5, Len(expr)), fr)
  ELSE <<expr[1]>> \o EvalSpan(Tail(expr), fr)

\* let old = rcx.replace_expr_prec(<expr>);
LetOldReplaceExprPrec ==
  /\ At("let_old_replace_expr_prec")
  /\ prec' = EvalPrec(Cur.arg, Top)
  /\ Step([Top EXCEPT !.saved = prec, !.pc = @ + 1])
  /\ UNCHANGED log

\* rcx.replace_expr_prec(<expr>); and rcx.replace_expr_prec(old);
ReplaceExprPrec ==
  /\ At("replace_expr_prec")
  /\ prec' = EvalPrec(Cur.arg, Top)
  /\ Step([Top EXCEPT !.pc = @ + 1])
  /\ UNCHANGED log

FieldOf(fr) == FieldIndex(fr.ty, fr.old.variant, CodeOf(fr)[fr.pc].arg[1])

\* the slice &f[1..] of a sequence
Rest(t) == [t EXCEPT !.kids = Tail(@)]

\* let ok = Rewrite::rewrite(&f1[0], &f2[0], rcx.borrow()); indexing an empty
\* sequence panics
RewriteFirst ==
  /\ At("rewrite_first")
  /\ LET i == FieldOf(Top)
         o == Top.old.kids[i]
         n == Top.new.kids[i]
     IN IF o.kids = <<>> \/ n.kids = <<>>
        THEN Panic
        ELSE /\ stack' = Append(stack,
                                Frame("rewrite", ElemType(decls, FieldType(Top.ty, Top.old.variant, i)),
                                      o.kids[1], n.kids[1], Append(Append(Top.path, i), 1)))
             /\ UNCHANGED <<decls, out, code, log, prec, ret, hist>>

\* let ok = ok && <call>: the call is made only if ok
OkAnd ==
  /\ At("ok_and")
  /\ Step([Top EXCEPT !.pc = IF Top.ok THEN @ + 1 ELSE @ + 2])
  /\ UNCHANGED <<log, prec>>

\* the positions of the items of q whose id is not among those of r
Without(q, r) ==
  SelectSeq([j \in 1..Len(q) |-> j],
            LAMBDA j : \A i \in 1..Len(r) : IdOf(r[i]) # IdOf(q[j]))

\* the positions of the items of new whose id is among those of old
Maintained(o, n) ==
  SelectSeq([j \in 1..Len(n) |-> j],
            LAMBDA j : \E i \in 1..Len(o) : IdOf(o[i]) = IdOf(n[j]))

\* rewrite_seq(old, new, outer_span, rcx) of the library: the items in old
\* alone are deleted, the items in new alone are inserted with the help of
\* the outer span, the items in both are then reconciled one after the other
RewriteSeq ==
  /\ stack # <<>> /\ Cur.op \in {"rewrite_seq", "rewrite_seq_rest"} /\ Top.fn = "recursive"
  /\ LET i == FieldOf(Top)
         rest == Cur.op = "rewrite_seq_rest"
         o == IF rest THEN Rest(Top.old.kids[i]) ELSE Top.old.kids[i]
         n == IF rest THEN Rest(Top.new.kids[i]) ELSE Top.new.kids[i]
         outer == EvalSpan(Tail(Cur.arg), Top)
         path == Append(Top.path, i)
         off == IF rest THEN 1 ELSE 0
         dels == Without(o.kids, n.kids)
         inss == Without(n.kids, o.kids)
         lg == log \o [k \in 1..Len(dels) |-> Edit(path, <<"delete">>, dels[k] + off)]
                   \o [k \in 1..Len(inss) |-> Edit(path, <<"insert">> \o outer, inss[k] + off)]
     IN /\ log' = lg
        /\ stack' = Append(stack,
                           [Frame("rewrite_seq", FieldType(Top.ty, Top.old.variant, i), o, n, path)
                              EXCEPT !.ok = TRUE, !.outer = outer, !.off = off, !.entry = log])
  /\ UNCHANGED <<decls, out, code, prec, ret, hist>>

\* the loop of rewrite_seq over the items both sequences hold: it returns
\* false when an item is not reconciled, true after the last one
SeqNext ==
  /\ At("rewrite_seq") /\ Top.fn = "rewrite_seq"
  /\ LET m == Maintained(Top.old.kids, Top.new.kids)
     IN IF ~Top.ok THEN Leave(FALSE)
        ELSE IF Top.pc > Len(m) THEN Leave(TRUE)
        ELSE LET j == m[Top.pc]
                 i == CHOOSE i \in 1..Len(Top.old.kids) :
                        IdOf(Top.old.kids[i]) = IdOf(Top.new.kids[j])
             IN /\ stack' = Append(stack,
                                   Frame("rewrite", ElemType(decls, Top.ty),
                                         Top.old.kids[i], Top.new.kids[j],
                                         Append(Top.path, j + Top.off)))
                /\ UNCHANGED <<decls, out, code, log, prec, ret, hist>>

\* recover(None, reparsed, new, rcx.borrow()): true when the hook has spliced
\* text of the old source over the node
RecoverHook ==
  /\ At("if_recover_return") /\ Top.hook = "none"
  /\ \E v \in BOOLEAN :
       /\ log' = IF v THEN Append(log, Edit(Top.path, <<"recover">>, 1)) ELSE log
       /\ Step([Top EXCEPT !.hook = IF v THEN "true" ELSE "false"])
  /\ UNCHANGED prec

\* if <hook> { return; }
IfRecoverReturn ==
  /\ At("if_recover_return") /\ Top.hook # "none"
  /\ IF Top.hook = "true"
     THEN Leave(TRUE)
     ELSE Step([Top EXCEPT !.pc = @ + 1]) /\ UNCHANGED <<log, prec>>

\* <Self as RecoverChildren>::recover_children(reparsed, new, rcx);
RecoverChildren ==
  /\ At("recover_children")
  /\ stack' = Append(stack, [Frame("recover_children", Top.ty, Top.old, Top.new, Top.path)
                              EXCEPT !.hook = Top.hook])
  /\ UNCHANGED <<decls, out, code, log, prec, ret, hist>>

\* the call of RecoverChildren::recover_node_and_children for a pair: of the
\* kind's impl for a node, of the library's for a sequence
RecoverCall(ty, r, n, path) ==
  Frame(IF IsSeqType(decls, ty) THEN "recover_seq" ELSE "recover_node_and_children",
        ty, r, n, path)

\* RecoverChildren::recover_node_and_children(f_r, f_n, rcx.borrow());
RecoverField ==
  /\ At("recover_field")
  /\ LET i == FieldOf(Top)
     IN stack' = Append(stack, RecoverCall(FieldType(Top.ty, Top.old.variant, i),
                                           Top.old.kids[i], Top.new.kids[i],
                                           Append(Top.path, i)))
  /\ UNCHANGED <<decls, out, code, log, prec, ret, hist>>

\* RecoverChildren::recover_node_and_children(&f_r[0], &f_n[0], rcx.borrow());
RecoverFirst ==
  /\ At("recover_first")
  /\ LET i == FieldOf(Top)
         r == Top.old.kids[i]
         n == Top.new.kids[i]
     IN IF r.kids = <<>> \/ n.kids = <<>>
        THEN Panic
        ELSE /\ stack' = Append(stack,
                                RecoverCall(ElemType(decls, FieldType(Top.ty, Top.old.variant, i)),
                                            r.kids[1], n.kids[1],
                                            Append(Append(Top.path, i), 1)))
             /\ UNCHANGED <<decls, out, code, log, prec, ret, hist>>

\* RecoverChildren::recover_node_and_children(&f_r[1..], &f_n[1..], rcx.borrow());
RecoverRest ==
  /\ At("recover_rest")
  /\ LET i == FieldOf(Top)
     IN stack' = Append(stack,
                        [RecoverCall(FieldType(Top.ty, Top.old.variant, i),
                                     Rest(Top.old.kids[i]), Rest(Top.new.kids[i]),
                                     Append(Top.path, i))
                           EXCEPT !.off = 1])
  /\ UNCHANGED <<decls, out, code, log, prec, ret, hist>>

\* the impl of RecoverChildren for a sequence: the items of reparsed and new
\* are walked in pairs, by position
RecoverSeqNext ==
  /\ At("recover_seq")
  /\ IF Top.pc > Len(Top.old.kids) \/ Top.pc > Len(Top.new.kids)
     THEN Leave(TRUE)
     ELSE /\ stack' = Append(stack,
                             RecoverCall(ElemType(decls, Top.ty),
                                         Top.old.kids[Top.pc], Top.new.kids[Top.pc],
                                         Append(Top.path, Top.pc + Top.off)))
          /\ UNCHANGED <<decls, out, code, log, prec, ret, hist>>

\* the end of a function that returns ()
EndOfFn ==
  /\ At("end")
  /\ Leave(TRUE)

Init ==
  /\ decls \in RunDecls
  /\ out = NoOutput
  /\ code = Build(decls)
  /\ stack = <<>>
  /\ log = <<>>
  /\ prec = NoPrec
  /\ ret = "none"
  /\ hist = <<>>

Next ==
  \/ Call
  \/ Mark
  \/ StrategyEqual
  \/ StrategyRecursive
  \/ StrategyPrint
  \/ StrategyOther
  \/ IfOkReturn
  \/ Rewind
  \/ Return
  \/ Match
  \/ RewriteField
  \/ AndAlso
  \/ LetOldReplaceExprPrec
  \/ ReplaceExprPrec
  \/ RewriteFirst
  \/ OkAnd
  \/ RewriteSeq
  \/ SeqNext
  \/ RecoverHook
  \/ IfRecoverReturn
  \/ RecoverChildren
  \/ RecoverField
  \/ RecoverFirst
  \/ RecoverRest
  \/ RecoverSeqNext
  \/ EndOfFn

Spec == Init /\ [][Next]_vars

-----------------------------------------------------------------------------
(* Properties of the generators *)

DeclNamed(n) == CHOOSE d \in Range(decls) : d.name = n

Trivial == <<Ins("return", Str("true"))>>

\* the emitted Rewrite impls of the types that are not ignored
Dispatchers ==
  IF out.gen = "rewrite"
  THEN {impl \in Range(out.text) : ~HasAttr(DeclNamed(impl.ty), "rewrite_ignore")}
  ELSE {}

DefaultDispatchers ==
  {impl \in Dispatchers : ~HasAttr(DeclNamed(impl.ty), "rewrite_strategies")}

C5_NoEmptyDispatcher ==
  \A impl \in Dispatchers : Strategies(impl) # <<>>

GenOf(trait) ==
  IF trait = "Rewrite" THEN "rewrite"
  ELSE IF trait = "Recursive" THEN "recursive"
  ELSE IF trait = "RecoverChildren" THEN "recover_children"
  ELSE IF trait = "SeqItem" THEN "seq_item"
  ELSE IF trait = "MaybeRewriteSeq" THEN "maybe_rewrite_seq"
  ELSE "never"

ImplsFor(d, trait) ==
  {i \in 1..Len(out.text) :
     /\ out.text[i].trait = trait
     /\ out.text[i].ty \in {d.name, "P<" \o d.name \o ">"}}

\* C8 as stated: a trait listed in rewrite_custom (and not asked for by
\* rewrite_gen or an alias, nor skipped) gets no generated impl, and is still
\* taken to be available.
C8_CustomSuppressesGeneration ==
  \A i \in 1..Len(decls) : \A k \in 1..Len(Traits) :
    LET d == decls[i]
        t == Traits[k]
    IN (/\ AttrLists(d, "rewrite_custom", t)
        /\ ~AttrLists(d, "rewrite_gen", t)
        /\ ~AttrLists(d, "rewrite_skip", t)
        /\ ~(HasAttr(d, "rewrite_seq_item") /\ t = "SeqItem"))
       => /\ type_has_impl(d, t)
          /\ out.gen = GenOf(t) => ImplsFor(d, t) = {}

HasHook(body) == \E i \in 1..Len(body) : body[i].op = "if_recover_return"

\* C9 as stated: for an ignored type the Rewrite impl only returns success,
\* exactly one Recursive impl is emitted and it only returns success, and the
\* RecoverChildren impl has no match and never calls the recover hook.
C9_IgnoredImplsTrivial ==
  \A i \in 1..Len(decls) :
    LET d == decls[i]
    IN HasAttr(d, "rewrite_ignore") =>
         /\ out.gen = "rewrite" =>
              \A j \in ImplsFor(d, "Rewrite") : out.text[j].body = Trivial
         /\ (out.gen = "recursive" /\ type_needs_generated_impl(d, "Recursive")) =>
              /\ Cardinality(ImplsFor(d, "Recursive")) = 1
              /\ \A j \in ImplsFor(d, "Recursive") : out.text[j].body = Trivial
         /\ out.gen = "recover_children" =>
              \A j \in ImplsFor(d, "RecoverChildren") :
                /\ out.text[j].recover_children = <<>>
                /\ ~HasHook(out.text[j].recover_node_and_children)
                /\ ~HasHook(out.text[j].recover_node_restricted)

\* the word lists an attribute value can be written from
StrategyLists == UNION {WordLists(StrategyNames, k) : k \in 1..MaxWords}

\* C10: with rewrite_strategies=s1,...,sn on a type, get_rewrite_strategies
\* gives exactly s1,...,sn and the emitted dispatcher tries exactly these, in
\* this order, whatever the other attributes are.
C10_OverrideIsExact ==
  \A i \in 1..Len(decls) : \A ws \in StrategyLists :
    LET d == decls[i]
    IN (HasAttr(d, "rewrite_strategies") /\ d.attrs["rewrite_strategies"] = join(ws))
       => /\ get_rewrite_strategies(d) = ws
          /\ \A impl \in Dispatchers : impl.ty = d.name => Strategies(impl) = ws

\* two strategies named on a type that also has rewrite_extra_strategies
C10_Witness ==
  \E impl \in Dispatchers :
    LET d == DeclNamed(impl.ty)
    IN /\ HasAttr(d, "rewrite_strategies")
       /\ HasAttr(d, "rewrite_extra_strategies")
       /\ d.type = "Struct"
       /\ d.attrs["rewrite_strategies"] = <<"print", Comma, "item_header">>
       /\ Strategies(impl) = <<Str("print"), Str("item_header")>>

\* what the automatic selection is made of, for a declaration d
FirstEntries(d) == IF d.type = "Flag" \/ type_has_impl(d, "Recursive") THEN 1 ELSE 0

ExtraEntries(d) ==
  IF HasAttr(d, "rewrite_extra_strategies")
  THEN split(d.attrs["rewrite_extra_strategies"]) ELSE <<>>

PrintAvailable(d) == \A i \in 1..Len(PrintTraits) : type_has_impl(d, PrintTraits[i])

\* C11: in an automatically selected strategy list the entries of
\* rewrite_extra_strategies stand, in the order given, right after the
\* equal/recursive entry, and the list ends with the automatic `print` entry
\* exactly when PrintParse, RecoverChildren and Splice are all available:
\* nothing else is in the list.
C11_ExtrasThenPrint ==
  \A impl \in DefaultDispatchers :
    LET d == DeclNamed(impl.ty)
        s == Strategies(impl)
        k == FirstEntries(d)
        e == ExtraEntries(d)
        p == IF PrintAvailable(d) THEN 1 ELSE 0
    IN /\ Len(s) = k + Len(e) + p
       /\ k = 1 => s[1] \in {Str("equal"), Str("recursive")}
       /\ \A j \in 1..Len(e) : s[k + j] = e[j]
       /\ p = 1 => s[Len(s)] = Str("print")
       /\ (p = 0 /\ Str("print") \notin Range(e)) => Str("print") \notin Range(s)

\* a struct with the print traits and two extra strategies
C11_Witness ==
  \E impl \in DefaultDispatchers :
    LET d == DeclNamed(impl.ty)
    IN /\ d.type = "Struct"
       /\ HasAttr(d, "rewrite_print")
       /\ HasAttr(d, "rewrite_extra_strategies")
       /\ d.attrs["rewrite_extra_strategies"] = <<"item_header", Comma, "equal">>
       /\ Strategies(impl)
            = <<Str("recursive"), Str("item_header"), Str("equal"), Str("print")>>

\* C12: a trait listed in rewrite_skip is neither generated nor taken to be
\* available, whatever rewrite_gen, rewrite_custom, the alias attributes and
\* the default sets say; and when the trait is one of PrintParse,
\* RecoverChildren and Splice, the automatic selection appends no `print`.
C12_SkipWins ==
  \A i \in 1..Len(decls) : \A k \in 1..Len(Traits) :
    LET d == decls[i]
        t == Traits[k]
    IN AttrLists(d, "rewrite_skip", t) =>
         /\ ~type_has_impl(d, t)
         /\ ~type_needs_generated_impl(d, t)
         /\ out.gen = GenOf(t) => ImplsFor(d, t) = {}
         /\ t \in Range(PrintTraits) =>
              /\ ~HasAttr(d, "rewrite_strategies") =>
                   /\ Len(get_rewrite_strategies(d)) = FirstEntries(d) + Len(ExtraEntries(d))
                   /\ ~HasAttr(d, "rewrite_extra_strategies") =>
                        Str("print") \notin Range(get_rewrite_strategies(d))
              /\ \A impl \in DefaultDispatchers :
                   /\ Len(Strategies(impl)) = FirstEntries(d) + Len(ExtraEntries(d))
                   /\ ~HasAttr(d, "rewrite_extra_strategies") =>
                        Str("print") \notin Range(Strategies(impl))

\* Splice both skipped and asked for on a struct that has rewrite_print: the
\* dispatcher is left with `recursive` alone
C12_Witness ==
  \E impl \in DefaultDispatchers :
    LET d == DeclNamed(impl.ty)
    IN /\ d.type = "Struct"
       /\ HasAttr(d, "rewrite_print")
       /\ AttrLists(d, "rewrite_skip", "Splice")
       /\ AttrLists(d, "rewrite_gen", "Splice")
       /\ Strategies(impl) = <<Str("recursive")>>

-----------------------------------------------------------------------------
(* Properties of the emitted dispatcher *)

Last(q) == q[Len(q)]

Ignored(ty) == HasAttr(DeclNamed(ty), "rewrite_ignore")

IsPrefix(p, q) == Len(p) <= Len(q) /\ SubSeq(q, 1, Len(p)) = p

\* the top frame is a dispatcher between two attempts or past the last one
BetweenAttempts ==
  /\ stack # <<>>
  /\ Top.fn = "rewrite"
  /\ Cur.op \in {"mark", "return"}
  /\ Top.tried # <<>>

\* C1: once a strategy attempt has failed, the edit log is back to what it was
\* when the attempt's mark was taken, before the next strategy starts and when
\* rewrite returns failure, however many edits the attempt appended.
C1_FailedAttemptRewound ==
  /\ (BetweenAttempts /\ ~Last(Top.tried).ok) => (log = Top.pre /\ log = Top.entry)
  /\ \A i \in 1..Len(hist) : ~hist[i].ok => hist[i].log = hist[i].entry

\* the recursive attempt of the root failed after a child had recorded an
\* edit, and the log is empty again before the next strategy
C1_Witness ==
  /\ BetweenAttempts
  /\ Top.path = <<>>
  /\ Last(Top.tried).strat = Str("recursive")
  /\ ~Last(Top.tried).ok
  /\ \E i \in 1..Len(hist) : hist[i].ok /\ Len(hist[i].log) > Len(hist[i].entry)
  /\ log = <<>>

\* the attempts of a call follow the strategy list of its kind: each in its
\* place, none after a success
InListOrder(ty, tried) ==
  LET s == get_rewrite_strategies(DeclNamed(ty))
  IN /\ Len(tried) <= Len(s)
     /\ \A j \in 1..Len(tried) : tried[j].strat = s[j]
     /\ \A j \in 1..(Len(tried) - 1) : ~tried[j].ok

\* C2: a dispatcher attempts its kind's strategies in list order; at the first
\* success it returns success at once with the log as that attempt left it
\* (the edits of the attempt after the log it was called with), and it returns
\* failure only after every strategy of the list has failed.
C2_InOrderFirstSuccess ==
  /\ \A i \in 1..Len(stack) :
       (stack[i].fn = "rewrite" /\ ~Ignored(stack[i].ty)) =>
         /\ InListOrder(stack[i].ty, stack[i].tried)
         /\ (stack[i].tried # <<>> /\ Last(stack[i].tried).ok) =>
              /\ i = Len(stack)
              /\ Cur.op = "if_ok_return"
              /\ log = Last(stack[i].tried).log
  /\ \A i \in 1..Len(hist) :
       LET e == hist[i]
           s == get_rewrite_strategies(DeclNamed(e.ty))
       IN ~Ignored(e.ty) =>
            /\ InListOrder(e.ty, e.tried)
            /\ e.ok => /\ e.tried # <<>>
                       /\ Last(e.tried).ok
                       /\ e.log = Last(e.tried).log
                       /\ IsPrefix(e.entry, e.log)
            /\ ~e.ok => /\ Len(e.tried) = Len(s)
                        /\ \A j \in 1..Len(e.tried) : ~e.tried[j].ok

\* a kind with three strategies: the first fails, the second succeeds with an
\* edit, the third is never attempted
C2_Witness ==
  \E i \in 1..Len(hist) :
    LET e == hist[i]
    IN /\ Len(get_rewrite_strategies(DeclNamed(e.ty))) = 3
       /\ Len(e.tried) = 2
       /\ ~e.tried[1].ok
       /\ e.tried[2].ok
       /\ e.ok
       /\ Len(e.log) > Len(e.entry)

C6_IgnoreDoesNothing ==
  /\ \A i \in 1..Len(stack) :
       (stack[i].fn = "rewrite" /\ Ignored(stack[i].ty)) =>
         /\ i = Len(stack)
         /\ stack[i].marks = 0
         /\ stack[i].mark = NoMark
         /\ stack[i].tried = <<>>
         /\ log = stack[i].entry
         /\ prec = stack[i].entryPrec
  /\ \A i \in 1..Len(hist) :
       LET e == hist[i]
       IN Ignored(e.ty) =>
            /\ e.ok
            /\ e.marks = 0
            /\ e.tried = <<>>
            /\ e.log = e.entry
            /\ e.prec = e.entryPrec

\* an ignored flag below the root, called with different values when the log
\* already holds an edit
C6_Witness ==
  \E i \in 1..Len(hist) :
    LET e == hist[i]
    IN /\ Ignored(e.ty)
       /\ e.old # e.new
       /\ e.path # <<>>
       /\ e.entry # <<>>
       /\ e.ok

\* the statements `rcx.replace_expr_prec(<expr>)` of the emitted arms that
\* enter a field: the field, whether they enter its first element, and <expr>
EnteringsOf(impl, gen) ==
  LET d == DeclNamed(impl.ty)
  IN UNION {
       LET c == impl.arms[k].code
           fs == d.variants[k].fields
           call(j) == IF c[j + 1].op = "ok_and" THEN c[j + 2] ELSE c[j + 1]
           fld(j) == fs[CHOOSE i \in 1..Len(fs) : fs[i].name = call(j).arg[1]]
       IN {[f |-> fld(j),
            first |-> c[j].op = "let_old_replace_expr_prec" /\ HasAttr(fld(j), "prec_first"),
            suffix |-> IF gen = "recursive" THEN "1" ELSE "_n",
            expr |-> c[j].arg] :
             j \in {j \in 1..Len(c) :
                      \/ c[j].op = "let_old_replace_expr_prec"
                      \/ c[j].op = "replace_expr_prec" /\ c[j].arg # <<"old">>}}
       : k \in 1..Len(impl.arms)}

Enterings ==
  IF out.gen \in {"recursive", "recover_children"}
  THEN UNION {EnteringsOf(out.text[n], out.gen) : n \in 1..Len(out.text)}
  ELSE {}

\* ExprPrec::<prec_special or Normal>(val)
Wrapped(f, val) ==
  <<"ExprPrec::">>
  \o (IF HasAttr(f, "prec_special") THEN f.attrs["prec_special"] ELSE <<"Normal">>)
  \o <<"(">> \o val \o <<")">>

BinopLeft(e) ==
  <<"binop_left_prec(">> \o e.f.attrs["prec_left_of_binop"] \o <<e.suffix, ")">>

BinopRight(e) ==
  <<"binop_right_prec(">> \o e.f.attrs["prec_right_of_binop"] \o <<e.suffix, ")">>

\* C14 as stated: the precedence a field is entered with is the one of `prec`
\* or `prec_inc` when one of them is given; otherwise the one of `prec_first`
\* for the first element of a sequence; otherwise the one derived from the
\* binop for a left or right operand; otherwise RESET.
C14_ExplicitFirst ==
  \A e \in Enterings :
    LET f == e.f
    IN IF Truthy(f, "prec") \/ Truthy(f, "prec_inc")
       THEN \/ Truthy(f, "prec")
               /\ e.expr = Wrapped(f, prec_name_to_expr(f.attrs["prec"], FALSE))
            \/ Truthy(f, "prec_inc")
               /\ e.expr = Wrapped(f, prec_name_to_expr(f.attrs["prec_inc"], TRUE))
       ELSE IF e.first /\ Truthy(f, "prec_first")
       THEN e.expr = Wrapped(f, prec_name_to_expr(f.attrs["prec_first"], FALSE))
       ELSE IF Truthy(f, "prec_left_of_binop") THEN e.expr = BinopLeft(e)
       ELSE IF Truthy(f, "prec_right_of_binop") THEN e.expr = BinopRight(e)
       ELSE e.expr = Wrapped(f, <<"parser::PREC_RESET">>)

\* C14 as amended: the precedence a field is entered with is the one derived
\* from the binop when the field is a left operand, else when it is a right
\* operand, whatever else is given (and prec_special is then not applied);
\* otherwise, wrapped by prec_special, the one of `prec_first` for the first
\* element of a sequence; otherwise the one of `prec_inc`, plus one; otherwise
\* the one of `prec`; otherwise RESET.
C14_BinopFirst ==
  \A e \in Enterings :
    LET f == e.f
    IN IF Truthy(f, "prec_left_of_binop") THEN e.expr = BinopLeft(e)
       ELSE IF Truthy(f, "prec_right_of_binop") THEN e.expr = BinopRight(e)
       ELSE IF e.first /\ Truthy(f, "prec_first")
       THEN e.expr = Wrapped(f, prec_name_to_expr(f.attrs["prec_first"], FALSE))
       ELSE IF Truthy(f, "prec_inc")
       THEN e.expr = Wrapped(f, prec_name_to_expr(f.attrs["prec_inc"], TRUE))
       ELSE IF Truthy(f, "prec")
       THEN e.expr = Wrapped(f, prec_name_to_expr(f.attrs["prec"], FALSE))
       ELSE e.expr = Wrapped(f, <<"parser::PREC_RESET">>)

\* a field with prec, prec_inc, prec_first and prec_left_of_binop: its first
\* element is entered with the precedence derived from the binop
C14_Witness ==
  \E e \in Enterings :
    /\ e.first
    /\ Truthy(e.f, "prec_first") /\ Truthy(e.f, "prec") /\ Truthy(e.f, "prec_inc")
    /\ Truthy(e.f, "prec_left_of_binop")
    /\ e.expr = <<"binop_left_prec(", "op", "1", ")">>

\* the variant record of a tree of kind ty
VariantOf(ty, t) ==
  LET d == DeclNamed(ty)
  IN d.variants[CHOOSE k \in 1..Len(d.variants) : d.variants[k].name = t.variant]

\* the calls the emitted block of field f makes when all of them succeed
NumCalls(f) == IF HasAttr(f, "prec_first") THEN 2 ELSE 1

\* the reconciliation of field f, as seen by the call, has succeeded
FieldOk(seen, f) ==
  LET es == SelectSeq(seen, LAMBDA e : e.field = f.name)
  IN /\ Len(es) = NumCalls(f)
     /\ \A j \in 1..Len(es) : es[j].ok

AllFieldsOk(fr) ==
  LET v == VariantOf(fr.ty, fr.old)
  IN \A i \in 1..Len(v.fields) :
       ~HasAttr(v.fields[i], "rewrite_ignore") => FieldOk(fr.seen, v.fields[i])

NoIgnoredSeen(fr) ==
  \A j \in 1..Len(fr.seen) :
    LET d == DeclNamed(fr.ty)
    IN \A k \in 1..Len(d.variants) : \A i \in 1..Len(d.variants[k].fields) :
         (d.variants[k].name = fr.old.variant
            /\ d.variants[k].fields[i].name = fr.seen[j].field)
         => ~HasAttr(d.variants[k].fields[i], "rewrite_ignore")

\* the step returns from a call of Recursive::recursive to its caller
RecursiveReturns ==
  /\ stack # <<>>
  /\ Top.fn = "recursive"
  /\ Len(stack') = Len(stack) - 1
  /\ stack' # <<>>

\* C13: Recursive::recursive returns true if and only if old and new are of
\* the same variant and the reconciliation of every field of the variant that
\* is not ignored has returned true; for a pair of different variants it
\* returns false having reconciled no field and recorded no edit; and no call
\* is ever made for an ignored field.
C13_RecursiveIffAllFields ==
  [][RecursiveReturns =>
       LET fr == Top
           v == stack'[Len(stack')].ok
           same == fr.old.variant = fr.new.variant
       IN /\ v <=> (same /\ AllFieldsOk(fr))
          /\ ~same => (fr.seen = <<>> /\ log = fr.entry /\ log' = fr.entry)
          /\ NoIgnoredSeen(fr)]_vars

\* a pair of variant B whose ignored field differs: the call is about to
\* return true after one reconciliation
C13_Witness ==
  /\ stack # <<>>
  /\ Top.fn = "recursive"
  /\ Cur.op = "return"
  /\ Top.old.variant = "B" /\ Top.new.variant = "B"
  /\ Top.old.kids[2] # Top.new.kids[2]
  /\ Len(Top.seen) = 1
  /\ Top.seen[1].ok

\* the calls of the emitted arms that take the first element of a sequence
FirstOps == {"rewrite_first", "recover_first"}

\* the precedence the block of the field being called for has set: the value
\* of its replace_expr_prec statement when it has one, else the one the
\* function was entered with
SetForField(c) ==
  LET ins == CodeOf(c)[c.pc]
      v == VariantOf(c.ty, c.old)
      f == v.fields[CHOOSE i \in 1..Len(v.fields) : v.fields[i].name = ins.arg[1]]
  IN IF HasAttr(f, "prec_first") \/ HasAttr(DeclNamed(c.ty), "prec_contains_expr")
     THEN EvalPrec(field_prec_expr(f, ins.op \in FirstOps,
                                   IF c.fn = "recursive" THEN "1" ELSE "_n"), c)
     ELSE c.entryPrec

\* the step returns from the recursive strategy or from the recovery walk
\* over the children of a node
ChildrenWalkReturns ==
  /\ stack # <<>>
  /\ Top.fn \in {"recursive", "recover_children"}
  /\ Len(stack') = Len(stack) - 1

\* every call made from an arm runs under the precedence of its own field
UnderOwnPrec ==
  \A i \in 2..Len(stack) :
    LET c == stack[i - 1]
    IN /\ (c.fn \in {"recursive", "recover_children"} /\ c.arm > 0)
            => stack[i].entryPrec = SetForField(c)
       /\ c.fn \in LibraryFns => stack[i].entryPrec = c.entryPrec

\* C15: when Recursive::recursive or RecoverChildren::recover_children
\* returns, with true or with false, after a field or the first element of a
\* sequence has failed or not, the precedence of the context is the one it
\* had when the function was entered; and every child is reconciled or
\* recovered under the precedence set for its own field.
C15_PrecBalanced ==
  [][/\ ChildrenWalkReturns => (prec = Top.entryPrec /\ prec' = Top.entryPrec)
     /\ UnderOwnPrec]_vars

\* the first element of the arguments of a call has not been reconciled: the
\* block has put the precedence back before the chain stops
C15_Witness ==
  /\ stack # <<>>
  /\ Top.fn = "recursive"
  /\ Top.old.variant = "Call" /\ Top.new.variant = "Call"
  /\ Cur.op = "and_also"
  /\ ~Top.ok
  /\ Top.seen = <<Seen("args", FALSE)>>
  /\ Top.saved = Top.entryPrec
  /\ prec = Top.entryPrec

\* the field an arm is calling for
CalledField(c) ==
  LET v == VariantOf(c.ty, c.old)
  IN v.fields[CHOOSE i \in 1..Len(v.fields) : v.fields[i].name = CodeOf(c)[c.pc].arg[1]]

\* the value of the binop field `name` of a tree
OpOf(c, t, name) == t.kids[FieldIndex(c.ty, t.variant, name)].val

\* C16 as stated: while the left or the right operand of a binary operator
\* is reconciled or recovered, the precedence of the context is the one
\* derived from the operator of the new tree, in the recursive strategy and in
\* the recovery walk, also when the old tree has another operator.
C16_OperandPrecFromNewOp ==
  \A i \in 2..Len(stack) :
    LET c == stack[i - 1]
    IN (c.fn \in {"recursive", "recover_children"} /\ c.arm > 0) =>
         LET f == CalledField(c)
         IN /\ Truthy(f, "prec_left_of_binop") =>
                 stack[i].entryPrec
                   = <<"binop_left_prec(", OpOf(c, c.new, f.attrs["prec_left_of_binop"][1]), ")">>
            /\ (~Truthy(f, "prec_left_of_binop") /\ Truthy(f, "prec_right_of_binop")) =>
                 stack[i].entryPrec
                   = <<"binop_right_prec(", OpOf(c, c.new, f.attrs["prec_right_of_binop"][1]), ")">>

\* the value of an attribute expression on the node t: `self.foo` is the
\* value of the field foo of t
RECURSIVE SelfExpr(_, _, _)
SelfExpr(expr, c, t) ==
  IF Len(expr) = 0 THEN <<>>
  ELSE IF expr[1] = "self." /\ Len(expr) >= 2
  THEN <<OpOf(c, t, expr[2])>> \o SelfExpr(SubSeq(expr, 3, Len(expr)), c, t)
  ELSE <<expr[1]>> \o SelfExpr(Tail(expr), c, t)

\* C17 as stated: the outer span the recursive strategy hands to rewrite_seq
\* for a field with seq_rewrite_outer_span is the value of the expression on
\* the old node: every `self.foo` in it is the field foo of the old tree.
C17_OuterSpanFromOld ==
  \A i \in 2..Len(stack) :
    LET c == stack[i - 1]
    IN (stack[i].fn = "rewrite_seq" /\ c.fn = "recursive"
          /\ HasAttr(CalledField(c), "seq_rewrite_outer_span")) =>
         stack[i].outer = SelfExpr(CalledField(c).attrs["seq_rewrite_outer_span"], c, c.old)

\* C18 as stated: no call ends in a panic: for a sequence field with
\* prec_first the recursive strategy returns true or false and the recovery
\* walk returns, whatever the lengths of the two sequences are, zero included.
C18_NeverPanics == ret # "panic"

\* the call reconciles two items of a field that is rewritten as a sequence
ReconcilesItems(i) ==
  /\ i >= 2
  /\ stack[i].fn = "rewrite"
  /\ \/ stack[i - 1].fn = "rewrite_seq"
     \/ /\ stack[i - 1].fn = "recursive"
        /\ stack[i - 1].arm > 0
        /\ CodeOf(stack[i - 1])[stack[i - 1].pc].op = "rewrite_first"
        /\ \/ HasAttr(CalledField(stack[i - 1]), "seq_rewrite")
           \/ HasAttr(CalledField(stack[i - 1]), "seq_rewrite_outer_span")

\* C19 as stated: in a field rewritten as a sequence, an item of old and an
\* item of new are reconciled with one another only if they have the same
\* id, also when the field has prec_first and an item is inserted, deleted
\* or moved at the head of the sequence.
C19_ItemsAlignedById ==
  \A i \in 1..Len(stack) :
    ReconcilesItems(i) => IdOf(stack[i].old) = IdOf(stack[i].new)

\* the fields of the variant of t that are not ignored, a prec_first field
\* once for its first element and once for the rest
RECURSIVE WalkedFields(_, _)
WalkedFields(fs, i) ==
  IF i > Len(fs) THEN <<>>
  ELSE (IF HasAttr(fs[i], "rewrite_ignore") THEN <<>>
        ELSE IF HasAttr(fs[i], "prec_first")
        THEN <<Seen(fs[i].name, TRUE), Seen(fs[i].name, TRUE)>>
        ELSE <<Seen(fs[i].name, TRUE)>>)
       \o WalkedFields(fs, i + 1)

HasRecover(ty) == type_has_impl(DeclNamed(ty), "Recover")

\* C20: in the recovery walk the hook of a kind that has one is called
\* before anything else is done at a node; when it has returned true the walk
\* returns from the node without descending; when it has returned false, or
\* the kind has no hook, the walk goes through the fields of the node that
\* are not ignored, all of them and in their order, each time with the child
\* of reparsed and the child of new at the same position.
C20_HookThenChildren ==
  [][/\ \A i \in 1..Len(stack) :
          LET fr == stack[i]
          IN /\ fr.fn = "recover_node_and_children" =>
                  /\ (HasRecover(fr.ty) /\ fr.hook = "none") => (i = Len(stack) /\ fr.pc = 1)
                  /\ ~HasRecover(fr.ty) => fr.hook = "none"
                  /\ fr.hook = "true" =>
                       (i = Len(stack) /\ (stack' = <<>> \/ Len(stack') = Len(stack) - 1))
             /\ fr.fn = "recover_children" =>
                  /\ i >= 2
                  /\ stack[i - 1].fn = "recover_node_and_children"
                  /\ fr.hook = stack[i - 1].hook
                  /\ fr.hook = IF HasRecover(fr.ty) THEN "false" ELSE "none"
                  /\ fr.old = stack[i - 1].old /\ fr.new = stack[i - 1].new
                  /\ (fr.arm > 0 /\ i < Len(stack)) =>
                       LET k == FieldOf(fr)
                           op == CodeOf(fr)[fr.pc].op
                           r == fr.old.kids[k]
                           n == fr.new.kids[k]
                       IN /\ ~HasAttr(CalledField(fr), "rewrite_ignore")
                          /\ op = "recover_field" =>
                               (stack[i + 1].old = r /\ stack[i + 1].new = n)
                          /\ op = "recover_first" =>
                               (stack[i + 1].old = r.kids[1] /\ stack[i + 1].new = n.kids[1])
                          /\ op = "recover_rest" =>
                               (stack[i + 1].old = Rest(r) /\ stack[i + 1].new = Rest(n))
             /\ (fr.fn = "recover_seq" /\ i < Len(stack)) =>
                  /\ stack[i + 1].old = fr.old.kids[fr.pc]
                  /\ stack[i + 1].new = fr.new.kids[fr.pc]
     /\ (ChildrenWalkReturns /\ Top.fn = "recover_children" /\ ret' # "panic") =>
          Top.seen = (IF IsStructOrEnum(DeclNamed(Top.ty)) /\ ~Ignored(Top.ty)
                      THEN WalkedFields(VariantOf(Top.ty, Top.new).fields, 1)
                      ELSE <<>>)]_vars

\* the hook of an item has returned false and the walk has been through the
\* one field of the item that is not ignored
C20_Witness ==
  /\ stack # <<>>
  /\ Top.fn = "recover_children"
  /\ Top.ty = "Item"
  /\ Top.hook = "false"
  /\ Top.arm > 0
  /\ Cur.op = "end"
  /\ Top.seen = <<Seen("v", TRUE)>>

\* the top-level call has returned
RootDone == ret \in {"true", "false"}

Root == Last(hist)

\* C7 as stated: for a root kind that supports the print strategy (PrintParse,
\* RecoverChildren and Splice all available), the top-level call returns
\* success for every pair.
C7_PrintSupportedNeverFails ==
  (RootDone /\ \A i \in 1..Len(PrintTraits) :
                 type_has_impl(DeclNamed(Root.ty), PrintTraits[i]))
    => ret = "true"

\* C7 as amended: a top-level call returns failure only if `print` is not in
\* the root kind's strategy list; for every root kind whose list holds `print`
\* the call never returns failure, whatever the strategies before it do.
C7_PrintListedNeverFails ==
  (RootDone /\ Str("print") \in Range(get_rewrite_strategies(DeclNamed(Root.ty))))
    => ret # "false"

\* the root's recursive attempt failed and print, tried after it, succeeded
C7_Witness ==
  /\ RootDone
  /\ ret = "true"
  /\ Len(Root.tried) >= 2
  /\ Root.tried[1].strat = Str("recursive")
  /\ ~Root.tried[1].ok
  /\ Last(Root.tried).strat = Str("print")

\* the `rcx.rewind(mark)` statements a dispatcher call has gone past
Rewound(f) == Cardinality({k \in 1..(f.pc - 1) : CodeOf(f)[k].op = "rewind"})

\* the call has taken a mark that it has not rewound to: an attempt of it is
\* under way, in the call itself or in the calls made from it
HasOpenMark(f) == f.fn = "rewrite" /\ f.marks > Rewound(f)

\* the calls on the stack that hold an unresolved mark, outermost first; a
\* call deeper in the stack has taken its mark later
OpenFrames == {i \in 1..Len(stack) : HasOpenMark(stack[i])}

\* the unresolved marks are nested: a later one is not before an earlier one,
\* and none is past the end of the log
MarksNested ==
  /\ \A i, j \in OpenFrames : i <= j => stack[i].mark.len <= stack[j].mark.len
  /\ \A i \in OpenFrames : stack[i].mark.len <= Len(log)

\* the edits recorded before the unresolved mark of call i
BeforeMark(i) == SubSeq(log, 1, stack[i].mark.len)

\* C21: marks obey stack discipline across nested dispatcher calls: every
\* rcx.rewind(mark) is made by the call that holds the latest mark not yet
\* resolved and truncates the log to it, the position of a mark is never past
\* the end of the log, and the rewind of an inner attempt keeps every edit
\* recorded before the mark of an attempt that encloses it.
C21_MarksStackDiscipline ==
  [][/\ MarksNested
     /\ At("rewind") =>
          /\ Len(stack) \in OpenFrames
          /\ Top.mark.len <= Len(log)
          /\ log' = SubSeq(log, 1, Top.mark.len)
          /\ \A i \in OpenFrames \ {Len(stack)} : IsPrefix(BeforeMark(i), log')]_vars

\* an inner dispatcher is about to rewind edits of a failed attempt while an
\* enclosing attempt holds a mark taken after edits that were kept
C21_Witness ==
  /\ At("rewind")
  /\ Len(stack) \in OpenFrames
  /\ Len(log) > Top.mark.len
  /\ \E i \in OpenFrames : i < Len(stack) /\ stack[i].mark.len > 0

====
